---- MODULE Spec2Model ----
(***************************************************************************)
(* Sales dashboard (dashboard/dashboard.py).  One script run loads the     *)
(* sales table and calls main, which calls the four display routines.      *)
(* The host UI reruns the script when the user touches the date selector.  *)
(*                                                                         *)
(* Representation:                                                         *)
(*   - a table is a sequence of records, one field per column;             *)
(*   - a timestamp is <<year, month, day, hour>>, a date <<year, month,    *)
(*     day>>;                                                              *)
(*   - total_price is held in hundredths of the currency unit, so that     *)
(*     sums are exact;                                                     *)
(*   - a text shown on the page is a sequence of one-character strings.    *)
(* Every aggregation of the script is independent of the order of the      *)
(* rows, so the input tables are enumerated up to row permutation.         *)
(***************************************************************************)
EXTENDS Integers, Sequences, FiniteSets, TLC

VARIABLES
    main_data,           \* content of dashboard/main_data.csv
    datas,               \* the module-level table of the running script
    pc,                  \* position of the script run
    date_input,          \* value held by the "Select Date Range" widget
    calls,               \* display routines invoked by main in this run
    panels,              \* panels exposed on the page by this run
    kpis,                \* texts of the three KPI columns
    latest_year_orders,  \* local table of display_orders_per_day_latest_year
    orders_per_day,      \* series charted by st.bar_chart
    top_10_cities,       \* rows plotted by sns.barplot
    legend,              \* colour icons written above the pie
    pie                  \* wedges drawn by plt.pie

vars == <<main_data, datas, pc, date_input, calls, panels, kpis,
          latest_year_orders, orders_per_day, top_10_cities, legend, pie>>

----------------------------------------------------------------------------
(* Bounds of the input tables *)

MaxRows == 3

\* distinct customers of one city
MaxUsers == 2


----------------------------------------------------------------------------
(* Column values the input tables are drawn from *)

OrderIds == {"o1", "o2"}

Cities == {"sao paulo", "rio de janeiro", "belo horizonte", "brasilia",
           "curitiba", "campinas"}

\* records one customer has in one city
Repeats == {1, 2}

PaymentTypes == {"boleto", "credit_card", "debit_card", "not_defined", "voucher"}

Prices == {50, 250, 100000}

Timestamps == {<<2017, 12, 31, 23>>, <<2018, 1, 1, 0>>,
               <<2018, 6, 15, 12>>, <<2018, 12, 31, 23>>}

\* month and day the user clicks in the calendar of the selector
PickDays == {<<1, 1>>, <<6, 15>>, <<12, 31>>}

DefaultRow ==
    [order_id |-> "o1",
     customer_unique_id |-> 1,
     customer_city |-> "sao paulo",
     order_purchase_timestamp |-> <<2018, 6, 15, 12>>,
     order_delivered_customer_date |-> <<2018, 6, 20, 12>>,
     total_price |-> 250,
     payment_type |-> "credit_card"]

Columns == DOMAIN DefaultRow

RECURSIVE SetToSeq(_)
SetToSeq(S) ==
    IF S = {} THEN <<>>
    ELSE LET x == CHOOSE y \in S : TRUE IN <<x>> \o SetToSeq(S \ {x})

RECURSIVE NonDecreasing(_, _, _)
\* the non-decreasing index sequences of length k over lo..n
NonDecreasing(k, lo, n) ==
    IF k = 0 THEN {<<>>}
    ELSE UNION {{<<i>> \o s : s \in NonDecreasing(k - 1, i, n)} : i \in lo..n}

\* the tables of at most maxLen rows over a set of rows, up to row order
Tables(rowSet, maxLen) ==
    LET rows == SetToSeq(rowSet)
    IN UNION {{[i \in 1..k |-> rows[ix[i]]] : ix \in NonDecreasing(k, 1, Len(rows))}
              : k \in 0..maxLen}

KpiRows ==
    {[DefaultRow EXCEPT !.order_id = o, !.total_price = p]
        : o \in OrderIds, p \in Prices}

DateRows ==
    {[DefaultRow EXCEPT !.order_id = o, !.order_purchase_timestamp = t]
        : o \in OrderIds, t \in Timestamps}

\* the tables in which city c has the customers 1..users[c], each with
\* `repeat` records
CityTables ==
    {LET pairs == SetToSeq({<<c, u>> \in Cities \X (1..MaxUsers) : u <= users[c]})
     IN [i \in 1..(Len(pairs) * repeat) |->
            [DefaultRow EXCEPT !.customer_city = pairs[((i - 1) \div repeat) + 1][1],
                               !.customer_unique_id = pairs[((i - 1) \div repeat) + 1][2]]]
        : users \in [Cities -> 0..MaxUsers], repeat \in Repeats}

PaymentRows ==
    {[DefaultRow EXCEPT !.payment_type = p] : p \in PaymentTypes}

----------------------------------------------------------------------------
(* Data-frame operations used by the script *)

Column(df, col) == [i \in DOMAIN df |-> df[i][col]]

Values(s) == {s[i] : i \in DOMAIN s}

Where(df, col, v) == SelectSeq(df, LAMBDA r : r[col] = v)

RECURSIVE SeriesSum(_)
SeriesSum(s) ==
    IF Len(s) = 0 THEN 0 ELSE s[1] + SeriesSum(Tail(s))

RECURSIVE SetSum(_, _)
\* sum of f over the keys S
SetSum(f, S) ==
    IF S = {} THEN 0
    ELSE LET k == CHOOSE x \in S : TRUE IN f[k] + SetSum(f, S \ {k})

Nunique(s) == Cardinality(Values(s))

\* df.groupby(by)[col].sum(): one entry per key
GroupbySum(df, by, col) ==
    [k \in Values(Column(df, by)) |-> SeriesSum(Column(Where(df, by, k), col))]

\* df.groupby(by).size()
GroupbySize(df, by) ==
    [k \in Values(Column(df, by)) |-> Len(Where(df, by, k))]

\* df.groupby(by)[col].nunique()
GroupbyNunique(df, by, col) ==
    [k \in Values(Column(df, by)) |-> Nunique(Column(Where(df, by, k), col))]

\* Series.mean() as the fraction <<sum, count>>; count 0 is NaN
Mean(f) == <<SetSum(f, DOMAIN f), Cardinality(DOMAIN f)>>

SetMax(S) == CHOOSE x \in S : \A y \in S : y <= x

----------------------------------------------------------------------------
(* Number formatting and rounding *)

DigitChars == <<"0", "1", "2", "3", "4", "5", "6", "7", "8", "9">>

RECURSIVE Digits(_)
\* str(n) for an integer n >= 0
Digits(n) ==
    IF n < 10 THEN <<DigitChars[n + 1]>>
    ELSE Append(Digits(n \div 10), DigitChars[(n % 10) + 1])

RECURSIVE GroupThousands(_)
\* a "," before every group of three digits, counted from the right
GroupThousands(ds) ==
    IF Len(ds) <= 3 THEN ds
    ELSE GroupThousands(SubSeq(ds, 1, Len(ds) - 3)) \o <<",">>
            \o SubSeq(ds, Len(ds) - 2, Len(ds))

\* babel format_currency(amount, "USD", locale="en_US"), amount in hundredths
format_currency(amount) ==
    <<"$">> \o GroupThousands(Digits(amount \div 100)) \o <<".">>
        \o <<DigitChars[((amount % 100) \div 10) + 1], DigitChars[(amount % 10) + 1]>>

\* format(n, ",")
FormatComma(n) == GroupThousands(Digits(n))

\* nearest integer, ties upwards
RoundHalfUp(num, den) == (2 * num + den) \div (2 * den)

\* round(num / den) of Python for den > 0, num >= 0: nearest integer, ties to even
PyRound(num, den) ==
    LET q == num \div den
        r == num % den
    IN IF 2 * r < den THEN q
       ELSE IF 2 * r > den THEN q + 1
       ELSE IF q % 2 = 0 THEN q ELSE q + 1

\* autopct="%1.1f%%" applied to the share x / total of a wedge
Autopct(x, total) ==
    LET tenths == PyRound(1000 * x, total)
    IN Digits(tenths \div 10) \o <<".", DigitChars[(tenths % 10) + 1], "%">>

----------------------------------------------------------------------------
(* Dates *)

DtYear(ts) == ts[1]

\* Series.dt.date drops the time of day
DtDate(ts) == <<ts[1], ts[2], ts[3]>>

DateLE(a, b) ==
    \/ a[1] < b[1]
    \/ a[1] = b[1] /\ a[2] < b[2]
    \/ a[1] = b[1] /\ a[2] = b[2] /\ a[3] <= b[3]

latest_year(df) == SetMax({DtYear(df[i].order_purchase_timestamp) : i \in DOMAIN df})

start_date(df) == <<latest_year(df), 1, 1>>

end_date(df) == <<latest_year(df), 12, 31>>

----------------------------------------------------------------------------
(* Script run *)

NoKpis ==
    [total_sales_revenue |-> <<>>, average_order_value |-> <<>>,
     number_of_orders |-> <<>>]

NoSeries == [d \in {} |-> 0]

Init0 ==
    /\ datas = <<>>
    /\ pc = "load"
    /\ date_input = <<>>
    /\ calls = <<>>
    /\ panels = {}
    /\ kpis = NoKpis
    /\ latest_year_orders = <<>>
    /\ orders_per_day = NoSeries
    /\ top_10_cities = <<>>
    /\ legend = <<>>
    /\ pie = <<>>

Init == main_data \in Tables(DateRows, MaxRows) /\ Init0

InitKpi == main_data \in Tables(KpiRows, MaxRows) /\ Init0

InitCity == main_data \in CityTables /\ Init0

InitPayment == main_data \in Tables(PaymentRows, MaxRows) /\ Init0

\* lines 13-20: the table is read at the start of every script run
LoadData ==
    /\ pc = "load"
    /\ datas' = main_data
    /\ pc' = "kpis"
    /\ UNCHANGED <<main_data, date_input, calls, panels, kpis,
                   latest_year_orders, orders_per_day, top_10_cities, legend, pie>>

\* the revenue of a table reduced to the first record of every order
RevenueOfFirstRecords(df) ==
    format_currency(SeriesSum(
        [i \in DOMAIN df |->
            IF \E j \in 1..(i - 1) : df[j].order_id = df[i].order_id
            THEN 0 ELSE df[i].total_price]))

total_sales_revenue(df) == format_currency(SeriesSum(Column(df, "total_price")))

\* mean of the per-order sums, in currency units: <<sum, 100 * orders>>
OrderValueMean(df) ==
    LET m == Mean(GroupbySum(df, "order_id", "total_price"))
    IN <<m[1], 100 * m[2]>>

average_order_value(df) ==
    PyRound(OrderValueMean(df)[1], OrderValueMean(df)[2])

number_of_orders(df) == Nunique(Column(df, "order_id"))

display_dashboard_kpis ==
    /\ pc = "kpis"
    /\ calls' = Append(calls, "display_dashboard_kpis")
    /\ IF OrderValueMean(datas)[2] = 0
       THEN \* the mean of no order is NaN and round(NaN) raises
            /\ pc' = "error"
            /\ UNCHANGED <<kpis, panels>>
       ELSE /\ kpis' = [total_sales_revenue |-> total_sales_revenue(datas),
                        average_order_value |-> Digits(average_order_value(datas)),
                        number_of_orders |-> FormatComma(number_of_orders(datas))]
            /\ panels' = panels \cup {"kpis"}
            /\ pc' = "orders"
    /\ UNCHANGED <<main_data, datas, date_input, latest_year_orders,
                   orders_per_day, top_10_cities, legend, pie>>

\* line 86: the rows of a table with the column order_purchase_date added
WithPurchaseDate(df) ==
    [i \in DOMAIN df |->
        [c \in DOMAIN df[i] \cup {"order_purchase_date"} |->
            IF c = "order_purchase_date"
            THEN DtDate(df[i].order_purchase_timestamp)
            ELSE df[i][c]]]

\* line 73: the rows of the latest year, selected with a boolean mask
LatestYearRows(df) ==
    SelectSeq(df, LAMBDA r : DtYear(r.order_purchase_timestamp) = latest_year(df))

\* the table of the module after line 86 wrote the column into the
\* selection of line 73
SetItemThroughView(df, selection) == selection

\* the table of the module after line 86: a boolean-mask selection is a
\* new table, so writing a column into it leaves the table of the module
SetItemOnCopy(df, selection) == df

InRangeExclusive(d, selected) ==
    /\ DateLE(selected[1], d) /\ selected[1] # d
    /\ DateLE(d, selected[2]) /\ selected[2] # d

\* lines 92-93
InRange(d, selected) == DateLE(selected[1], d) /\ DateLE(d, selected[2])

\* lines 91-94
filtered_orders(df, selected) ==
    SelectSeq(df, LAMBDA r : InRange(r.order_purchase_date, selected))

\* the value st.date_input returns: the default on the first run of the
\* session, afterwards what the user selected
DateInputValue(df) ==
    IF date_input = <<>> THEN <<start_date(df), end_date(df)>> ELSE date_input

display_orders_per_day_latest_year ==
    /\ pc = "orders"
    /\ calls' = Append(calls, "display_orders_per_day_latest_year")
    /\ LET selected_date_range == DateInputValue(datas)
           selection == WithPurchaseDate(LatestYearRows(datas))
       IN /\ date_input' = selected_date_range
          /\ latest_year_orders' = selection
          /\ datas' = SetItemOnCopy(datas, selection)
          /\ IF Len(selected_date_range) < 2
             THEN \* selected_date_range[1] raises IndexError at line 93
                  /\ pc' = "error"
                  /\ UNCHANGED <<orders_per_day, panels>>
             ELSE /\ orders_per_day' =
                        GroupbySize(filtered_orders(selection, selected_date_range),
                                    "order_purchase_date")
                  /\ panels' = panels \cup {"orders"}
                  /\ pc' = "demographic"
    /\ UNCHANGED <<main_data, kpis, top_10_cities, legend, pie>>

\* lines 112-117
customer_city_count(df) ==
    LET n == GroupbyNunique(df, "customer_city", "customer_unique_id")
    IN {[customer_city |-> c, total_users |-> n[c]] : c \in DOMAIN n}

FirstAscending(S) == {x \in S : \A y \in S : x.total_users <= y.total_users}

\* the rows that sort_values(by="total_users", ascending=False) may put first
FirstDescending(S) == {x \in S : \A y \in S : y.total_users <= x.total_users}

RECURSIVE SortValues(_)
\* the orders sort_values may return: the default sort is not stable, so
\* rows with equal keys come in any order
SortValues(S) ==
    IF S = {} THEN {<<>>}
    ELSE UNION {{<<x>> \o rest : rest \in SortValues(S \ {x})} : x \in FirstDescending(S)}

TopN == 5

DfHead(s, n) == SubSeq(s, 1, IF Len(s) < n THEN Len(s) ELSE n)

display_customer_demographic ==
    /\ pc = "demographic"
    /\ calls' = Append(calls, "display_customer_demographic")
    /\ \E top \in {DfHead(s, TopN) : s \in SortValues(customer_city_count(datas))} :
            top_10_cities' = top
    /\ panels' = panels \cup {"demographic"}
    /\ pc' = "payment"
    /\ UNCHANGED <<main_data, datas, date_input, kpis, latest_year_orders,
                   orders_per_day, legend, pie>>

\* the payment types in the order groupby sorts its keys
PaymentTypeOrder ==
    <<"boleto", "credit_card", "debit_card", "not_defined", "voucher">>

\* line 150
payment_counts(df) ==
    LET n == GroupbySize(df, "payment_type")
        keys == SelectSeq(PaymentTypeOrder, LAMBDA k : k \in DOMAIN n)
    IN [i \in DOMAIN keys |-> [payment_type |-> keys[i], counts |-> n[keys[i]]]]

Unfiltered(counted) == counted

\* lines 153-155
filtered_payment_type(counted) ==
    SelectSeq(counted, LAMBDA r : r.payment_type # "not_defined")

colors == <<"lightcoral", "lightskyblue", "lightpink", "lightseagreen">>

\* lines 168-178
LegendIcons ==
    <<[color |-> "lightcoral", label |-> "credit_card"],
      [color |-> "lightskyblue", label |-> "boleto"],
      [color |-> "lightpink", label |-> "voucher"],
      [color |-> "lightseagreen", label |-> "debit_card"]>>

\* plt.pie(x, labels, autopct, colors): one wedge per row, in row order,
\* of share x / sum(x), coloured by cycling through the colour list
Pie(rows) ==
    LET total == SeriesSum(Column(rows, "counts"))
    IN [i \in DOMAIN rows |->
            [label |-> rows[i].payment_type,
             x |-> rows[i].counts,
             total |-> total,
             color |-> colors[((i - 1) % Len(colors)) + 1],
             autotext |-> Autopct(rows[i].counts, total)]]

display_payment_distribution ==
    /\ pc = "payment"
    /\ calls' = Append(calls, "display_payment_distribution")
    /\ legend' = LegendIcons
    /\ pie' = Pie(filtered_payment_type(payment_counts(datas)))
    /\ panels' = panels \cup {"payment"}
    /\ pc' = "done"
    /\ UNCHANGED <<main_data, datas, date_input, kpis, latest_year_orders,
                   orders_per_day, top_10_cities>>

\* the host starts a new script run: the page is drawn again from nothing
NewRun ==
    /\ pc' = "load"
    /\ calls' = <<>>
    /\ panels' = {}
    /\ kpis' = NoKpis
    /\ latest_year_orders' = <<>>
    /\ orders_per_day' = NoSeries
    /\ top_10_cities' = <<>>
    /\ legend' = <<>>
    /\ pie' = <<>>
    /\ UNCHANGED <<main_data, datas>>

RunEnded == pc \in {"done", "error"}

\* the user asks for a rerun of the page
Rerun ==
    /\ RunEnded
    /\ NewRun
    /\ UNCHANGED date_input

\* the user clicks a first day in the calendar of the selector: the widget
\* holds the start only until the end is clicked
PickStart ==
    /\ RunEnded
    /\ Len(date_input) = 2
    /\ \E md \in PickDays : date_input' = <<<<latest_year(datas), md[1], md[2]>>>>
    /\ NewRun

\* the user clicks the end of the range, on or after the start
PickEnd ==
    /\ RunEnded
    /\ Len(date_input) = 1
    /\ \E md \in PickDays :
         LET d == <<latest_year(datas), md[1], md[2]>>
         IN /\ DateLE(date_input[1], d)
            /\ date_input' = <<date_input[1], d>>
    /\ NewRun

Render ==
    \/ LoadData
    \/ display_dashboard_kpis
    \/ display_orders_per_day_latest_year
    \/ display_customer_demographic
    \/ display_payment_distribution
    \/ Rerun

Next == Render \/ PickStart \/ PickEnd

Spec == Init /\ [][Next]_vars

SpecKpi == InitKpi /\ [][Next]_vars

SpecCity == InitCity /\ [][Render]_vars

SpecPayment == InitPayment /\ [][Next]_vars

----------------------------------------------------------------------------
(* Reading the page and the table, for the properties below *)

IsDigit(ch) == \E d \in 0..9 : DigitChars[d + 1] = ch

DigitValue(ch) == CHOOSE d \in 0..9 : DigitChars[d + 1] = ch

RECURSIVE ReadNumber(_, _)
\* the number a text shows, its separators and signs ignored
ReadNumber(text, acc) ==
    IF text = <<>> THEN acc
    ELSE IF IsDigit(text[1])
         THEN ReadNumber(Tail(text), 10 * acc + DigitValue(text[1]))
         ELSE ReadNumber(Tail(text), acc)

ShownRevenue == ReadNumber(kpis.total_sales_revenue, 0)

ShownAverage == ReadNumber(kpis.average_order_value, 0)

ShownOrders == ReadNumber(kpis.number_of_orders, 0)

RECURSIVE PriceOver(_, _)
\* total_price summed over the records of the indices I
PriceOver(df, I) ==
    IF I = {} THEN 0
    ELSE LET i == CHOOSE j \in I : TRUE
         IN df[i].total_price + PriceOver(df, I \ {i})

RecordsOfOrder(df, o) == {i \in DOMAIN df : df[i].order_id = o}

OrdersOf(df) == {df[i].order_id : i \in DOMAIN df}

RECURSIVE SumOfOrderTotals(_, _)
SumOfOrderTotals(df, orders) ==
    IF orders = {} THEN 0
    ELSE LET o == CHOOSE x \in orders : TRUE
         IN PriceOver(df, RecordsOfOrder(df, o)) + SumOfOrderTotals(df, orders \ {o})

Abs(x) == IF x < 0 THEN -x ELSE x

DayNumber(d) == 10000 * d[1] + 100 * d[2] + d[3]

PurchaseDay(r) ==
    <<r.order_purchase_timestamp[1], r.order_purchase_timestamp[2],
      r.order_purchase_timestamp[3]>>

MaxYear(df) ==
    CHOOSE y \in {df[i].order_purchase_timestamp[1] : i \in DOMAIN df} :
        \A i \in DOMAIN df : df[i].order_purchase_timestamp[1] <= y

CitiesOf(df) == {df[i].customer_city : i \in DOMAIN df}

CustomersOf(df, city) ==
    {df[i].customer_unique_id : i \in {j \in DOMAIN df : df[j].customer_city = city}}

RecordsPaidBy(df, type) == {i \in DOMAIN df : df[i].payment_type = type}

RECURSIVE PrintedTenths(_)
\* the percentages printed on the wedges, in tenths of a percent, summed
PrintedTenths(wedges) ==
    IF wedges = <<>> THEN 0
    ELSE ReadNumber(wedges[1].autotext, 0) + PrintedTenths(Tail(wedges))

RECURSIVE WedgeCounts(_)
WedgeCounts(wedges) ==
    IF wedges = <<>> THEN 0 ELSE wedges[1].x + WedgeCounts(Tail(wedges))

AllPanels == {"kpis", "orders", "demographic", "payment"}

MainOrder ==
    <<"display_dashboard_kpis", "display_orders_per_day_latest_year",
      "display_customer_demographic", "display_payment_distribution">>

----------------------------------------------------------------------------
(* Properties *)

\* C1 as stated: the Average Order Value shown equals the total revenue (the
\* sum of total_price over all records) divided by the number of distinct
\* order identifiers.
C1_AverageIsExactQuotient ==
    "kpis" \in panels =>
        100 * ShownAverage * Cardinality(OrdersOf(datas))
            = PriceOver(datas, DOMAIN datas)

\* C1 amended: whenever the KPIs are shown, Total Orders is the number of
\* distinct order identifiers, and the Average Order Value shown is the total
\* revenue divided by that number, rounded to the nearest whole currency
\* unit, a quotient halfway between two integers going to the even one.
C1_AverageIsRoundedQuotient ==
    "kpis" \in panels =>
        LET n == Cardinality(OrdersOf(datas))
            total == PriceOver(datas, DOMAIN datas)
            off == Abs(100 * n * ShownAverage - total)
        IN /\ n > 0
           /\ ShownOrders = n
           /\ 2 * off <= 100 * n
           /\ (2 * off = 100 * n => ShownAverage % 2 = 0)

\* C1 witness: KPIs shown for two orders whose average lies halfway between
\* two integers.
C1_Witness ==
    /\ "kpis" \in panels
    /\ Cardinality(OrdersOf(datas)) = 2
    /\ 2 * Abs(200 * ShownAverage - PriceOver(datas, DOMAIN datas)) = 200

\* C2: the Total Revenue shown equals the sum over all distinct orders of the
\* order's total (the sum of total_price of the records of that order_id),
\* also when one order spans several records.
C2_RevenueIsSumOfOrderTotals ==
    "kpis" \in panels =>
        ShownRevenue = SumOfOrderTotals(datas, OrdersOf(datas))

\* C2 witness: KPIs shown for two orders, one of them spanning two records,
\* with a revenue of at least 1,000.00.
C2_Witness ==
    /\ "kpis" \in panels
    /\ Cardinality(OrdersOf(datas)) = 2
    /\ \E o \in OrdersOf(datas) : Cardinality(RecordsOfOrder(datas, o)) = 2
    /\ ShownRevenue >= 100000

\* C3: the cities plotted are min(5, number of cities) distinct cities, each
\* with its count of distinct customer_unique_id, in non-increasing order of
\* that count, and no city left out has strictly more distinct customers than
\* a plotted one.
C3_TopCitiesSortedDescending ==
    "demographic" \in panels =>
        LET n == Cardinality(CitiesOf(datas))
            plotted == {top_10_cities[i].customer_city : i \in DOMAIN top_10_cities}
        IN /\ Len(top_10_cities) = IF n < 5 THEN n ELSE 5
           /\ Cardinality(plotted) = Len(top_10_cities)
           /\ plotted \subseteq CitiesOf(datas)
           /\ \A i \in DOMAIN top_10_cities :
                top_10_cities[i].total_users
                    = Cardinality(CustomersOf(datas, top_10_cities[i].customer_city))
           /\ \A i, j \in DOMAIN top_10_cities :
                i < j => top_10_cities[i].total_users >= top_10_cities[j].total_users
           /\ \A c \in CitiesOf(datas) \ plotted : \A p \in plotted :
                Cardinality(CustomersOf(datas, c)) <= Cardinality(CustomersOf(datas, p))

\* C3 witness: six cities, five of them plotted, the first with more distinct
\* customers than the last, and customers with several records.
C3_Witness ==
    /\ "demographic" \in panels
    /\ Cardinality(CitiesOf(datas)) = 6
    /\ Len(top_10_cities) = 5
    /\ top_10_cities[1].total_users > top_10_cities[5].total_users
    /\ Len(datas) > 12

\* C4 as stated, for a table with a record of a defined payment type: no
\* wedge for not_defined, each wedge its record count over the count of the
\* remaining types, and the percentages shown on the wedges sum to 100%.
C4_PrintedSharesSumTo100 ==
    ("payment" \in panels /\ pie # <<>>) =>
        /\ \A i \in DOMAIN pie : pie[i].label # "not_defined"
        /\ \A i \in DOMAIN pie :
             /\ pie[i].x = Cardinality(RecordsPaidBy(datas, pie[i].label))
             /\ pie[i].total = Len(datas) - Cardinality(RecordsPaidBy(datas, "not_defined"))
        /\ PrintedTenths(pie) = 1000

\* C4 amended: the pie has no wedge for not_defined and exactly one wedge for
\* every other payment type of the table; each wedge is the record count of
\* its type over the record count of the remaining types, so the shares sum
\* to 100% when a record of a remaining type exists (there is no wedge
\* otherwise); the percentage printed on a wedge is its share rounded to one
\* decimal, so the printed percentages sum to 100% only within 0.05 points
\* per wedge.
C4_SharesSumTo100PrintedRounded ==
    "payment" \in panels =>
        LET remaining == Len(datas) - Cardinality(RecordsPaidBy(datas, "not_defined"))
        IN /\ \A i \in DOMAIN pie : pie[i].label # "not_defined"
           /\ \A i, j \in DOMAIN pie : pie[i].label = pie[j].label => i = j
           /\ {pie[i].label : i \in DOMAIN pie}
                = {datas[i].payment_type : i \in DOMAIN datas} \ {"not_defined"}
           /\ \A i \in DOMAIN pie :
                /\ pie[i].x = Cardinality(RecordsPaidBy(datas, pie[i].label))
                /\ pie[i].total = remaining
                /\ 2 * Abs(ReadNumber(pie[i].autotext, 0) * remaining - 1000 * pie[i].x)
                        <= remaining
           /\ (remaining > 0 => WedgeCounts(pie) = remaining)
           /\ (remaining = 0 => pie = <<>>)
           /\ (remaining > 0 => 2 * Abs(PrintedTenths(pie) - 1000) <= Len(pie))

\* C4 witness: a pie of at least two wedges drawn from a table that has a
\* not_defined record.
C4_Witness ==
    /\ "payment" \in panels
    /\ RecordsPaidBy(datas, "not_defined") # {}
    /\ Len(pie) >= 2

\* C5: once the table is loaded, no step of a page render and no date
\* selection changes it: it keeps its records and its columns, and the
\* column order_purchase_date is never added to it.
C5_TableUnchanged ==
    [][pc # "load" =>
         /\ datas' = datas
         /\ datas' = main_data
         /\ \A i \in DOMAIN datas' : DOMAIN datas'[i] = Columns]_vars

\* C5 witness: display_orders_per_day_latest_year has added the column to
\* its selection of the latest year, which holds fewer records than the table.
C5_Witness ==
    /\ pc = "demographic"
    /\ latest_year_orders # <<>>
    /\ "order_purchase_date" \in DOMAIN latest_year_orders[1]
    /\ Len(latest_year_orders) < Len(datas)
    /\ datas = main_data

\* C6: for every value the selector holds, a range or a start date alone, the
\* render completes and exposes the four panels.
C6_RenderExposesAllPanels ==
    (date_input # <<>> /\ RunEnded) => (pc = "done" /\ panels = AllPanels)

\* C7: in every render in which the selector holds a value, main invokes the
\* four display routines in order, each exactly once.
C7_FourRoutinesInOrder ==
    /\ Len(calls) <= 4
    /\ calls = SubSeq(MainOrder, 1, Len(calls))
    /\ (date_input # <<>> /\ RunEnded) => calls = MainOrder

\* C8: for a selected range [start, end], the days charted are exactly the
\* purchase dates of the records of the latest purchase year of the table
\* lying between start and end, both included; the selection lies between
\* 1 January and 31 December of that year.
C8_ChartDaysAreLatestYearInRange ==
    "orders" \in panels =>
        /\ Len(date_input) = 2
        /\ \A k \in 1..2 :
             /\ DayNumber(date_input[k]) >= DayNumber(<<MaxYear(datas), 1, 1>>)
             /\ DayNumber(date_input[k]) <= DayNumber(<<MaxYear(datas), 12, 31>>)
        /\ DOMAIN orders_per_day =
             {PurchaseDay(datas[i]) : i \in
                {j \in DOMAIN datas :
                    /\ datas[j].order_purchase_timestamp[1] = MaxYear(datas)
                    /\ DayNumber(PurchaseDay(datas[j])) >= DayNumber(date_input[1])
                    /\ DayNumber(PurchaseDay(datas[j])) <= DayNumber(date_input[2])}}

\* C8 witness: a chart over a range the user selected that ends on the
\* purchase date of a record, leaves out a record of the latest year and comes
\* from a table that also has a record of an earlier year.
C8_Witness ==
    /\ "orders" \in panels
    /\ Len(date_input) = 2
    /\ date_input[1] # <<MaxYear(datas), 1, 1>>
    /\ date_input[2] \in DOMAIN orders_per_day
    /\ \E i \in DOMAIN datas :
         /\ datas[i].order_purchase_timestamp[1] = MaxYear(datas)
         /\ PurchaseDay(datas[i]) \notin DOMAIN orders_per_day
    /\ \E i \in DOMAIN datas : datas[i].order_purchase_timestamp[1] < MaxYear(datas)

\* C9: the value charted for a day is the number of distinct order
\* identifiers among the records purchased on that day.
C9_ChartCountsDistinctOrders ==
    "orders" \in panels =>
        \A d \in DOMAIN orders_per_day :
            orders_per_day[d] =
                Cardinality({datas[i].order_id : i \in
                                {j \in DOMAIN datas : PurchaseDay(datas[j]) = d}})

\* C10: every wedge of the pie has the colour the legend shows for the
\* payment type of the wedge.
C10_WedgeColourMatchesLegend ==
    "payment" \in panels =>
        \A i \in DOMAIN pie : \E k \in DOMAIN legend :
            legend[k].label = pie[i].label /\ legend[k].color = pie[i].color

====
